---- MODULE Spec2Model ----
(***************************************************************************)
(* Karnaugh map solver (karnaugh.h / karnaugh.cpp).                        *)
(*                                                                         *)
(* A kmap is constructed from a truth-table file (load_variables on the    *)
(* first line, load_values on every further line), after which             *)
(* get_formula(v) / get_formula_string(v) enumerate the uniform groups,    *)
(* filter them in two passes and synthesise one term per surviving group.  *)
(*                                                                         *)
(* Pointers into internal_map are modelled as 1-based indices, 0 being     *)
(* nullptr.  A var_map_t (std::map<char, bool>) is a function whose        *)
(* domain is the key set; iteration follows the character codes.           *)
(***************************************************************************)
EXTENDS Integers, Sequences, FiniteSets, TLC

VARIABLES
    pc,                  \* "ctor", "reading", "loaded", "formula", "string"
    exists,              \* std::filesystem::exists(path) at construction
    unordered_variables, \* kmap::unordered_variables
    variables,           \* kmap::variables (pair of axis lists)
    internal_map,        \* kmap::internal_map
    v,                   \* the argument of the last get_formula / get_formula_string call
    groups,              \* result of get_all_groups(v) inside that call
    tresult,             \* survivors of the first pass inside that call
    filtered,            \* result of get_filtered_groups(v) inside that call
    formula,             \* result of get_formula(v)
    formula_string       \* result of get_formula_string(v)

vars == <<pc, exists, unordered_variables, variables, internal_map,
          v, groups, tresult, filtered, formula, formula_string>>

----------------------------------------------------------------------------
(* Bounds of the explored inputs *)

\* a table is explored when at most this many rows carry the rarer output bit
MaxMinority == 2

\* the file may end at most this many rows before the truth table is complete
MaxMissing == 1

\* the variable lines (first line of the file) that are explored
VarLines ==
    { <<"A">>, <<"B">>,
      <<"A", "B">>, <<"B", "A">>,
      <<"A", "B", "C">>, <<"C", "A", "B">>,
      <<"A", "B", "C", "D">>, <<"D", "B", "A", "C">> }

----------------------------------------------------------------------------
(* Small helpers *)

\* character code of a variable name: the order of std::map<char, ...>
CharCode(c) ==
    CASE c = "A" -> 65 [] c = "B" -> 66 [] c = "C" -> 67 [] c = "D" -> 68

RECURSIVE SortedKeys(_)
\* the keys of a std::map<char, T> in iteration order
SortedKeys(S) ==
    IF S = {} THEN <<>>
    ELSE LET k == CHOOSE a \in S : \A b \in S : CharCode(a) <= CharCode(b)
         IN  <<k>> \o SortedKeys(S \ {k})

ToSet(s) == { s[i] : i \in DOMAIN s }

RECURSIVE Flatten(_)
Flatten(ss) == IF ss = <<>> THEN <<>> ELSE Head(ss) \o Flatten(Tail(ss))

RECURSIVE Pow2(_)
\* 1 << n
Pow2(n) == IF n = 0 THEN 1 ELSE 2 * Pow2(n - 1)

RECURSIVE KeepFrom(_, _, _)
\* the elements of s at the indices in K, from index i on, in order
KeepFrom(s, K, i) ==
    IF i > Len(s) THEN <<>>
    ELSE (IF i \in K THEN <<s[i]>> ELSE <<>>) \o KeepFrom(s, K, i + 1)

ivec2(_x, _y) == [x |-> _x, y |-> _y]

kgroup(_start, _size) == [start |-> _start, size |-> _size]

----------------------------------------------------------------------------
(* utils *)

patterns ==
    << ivec2(1, 1), ivec2(2, 1), ivec2(1, 2), ivec2(4, 1), ivec2(1, 4),
       ivec2(2, 2), ivec2(4, 2), ivec2(2, 4), ivec2(4, 4) >>

map_from_keys(keys, default) == [k \in ToSet(keys) |-> default]

\* variant: plain binary counting for two variables
generate_order_binary(size) ==
    CASE size = 1 -> << <<0>>, <<1>> >>
      [] size = 2 -> << <<0, 0>>, <<0, 1>>, <<1, 0>>, <<1, 1>> >>
      [] OTHER    -> << >>

generate_order(size) ==
    CASE size = 1 -> << <<0>>, <<1>> >>
      [] size = 2 -> << <<0, 0>>, <<0, 1>>, <<1, 1>>, <<1, 0>> >>
      [] OTHER    -> << >>

----------------------------------------------------------------------------
(* kgroup *)

is_in(this, group) ==
    /\ this.start.x >= group.start.x
    /\ this.start.y >= group.start.y
    /\ this.start.x + this.size.x <= group.start.x + group.size.x
    /\ this.start.y + this.size.y <= group.start.y + group.size.y

to_points(this) ==
    Flatten([i \in 1..this.size.x |->
                [j \in 1..this.size.y |->
                    ivec2(this.start.x + (i - 1), this.start.y + (j - 1))]])

----------------------------------------------------------------------------
(* kmap: sizes and lookups, as functions of the cell list *)

size_x == Pow2(Len(variables[1]))
size_y == Pow2(Len(variables[2]))
size   == size_x * size_y
empty  == size = 0

\* index of the first cell stored at (x, y); 0 is nullptr
CellAt(imap, x, y) ==
    LET hits == { i \in DOMAIN imap :
                    imap[i].first.first.second = x /\ imap[i].first.second.second = y }
    IN  IF hits = {} THEN 0 ELSE CHOOSE i \in hits : \A j \in hits : i <= j

value_for(x, y) == CellAt(internal_map, x, y)

var_coord_for(x, y) == CellAt(internal_map, x, y)

----------------------------------------------------------------------------
(* kmap::load_variables *)

FirstAxisSet(tvariables) ==
    LET s == Len(tvariables)
    IN  { tvariables[i + 1] : i \in { i \in 0..(s - 1) :
            IF s % 2 = 0 THEN i < s \div 2 ELSE i <= s \div 2 } }

SecondAxisSet(tvariables) ==
    LET s == Len(tvariables)
    IN  { tvariables[i + 1] : i \in { i \in 0..(s - 1) :
            ~ (IF s % 2 = 0 THEN i < s \div 2 ELSE i <= s \div 2) } }

----------------------------------------------------------------------------
(* kmap::load_values *)

RECURSIVE Assign(_, _, _, _)
\* the loop "temp.at(unordered_variables.at(i)) = vars.at(i)" from index i on;
\* either at() throwing leaves temp as it is
Assign(temp, uvars, vals, i) ==
    IF i >= Len(vals) THEN temp
    ELSE IF i < Len(uvars) /\ uvars[i + 1] \in DOMAIN temp
         THEN Assign([temp EXCEPT ![uvars[i + 1]] = (vals[i + 1] # 0)], uvars, vals, i + 1)
         ELSE Assign(temp, uvars, vals, i + 1)

process(list, vals, uvars) ==
    LET temp  == Assign(map_from_keys(list, FALSE), uvars, vals, 0)
        order == generate_order(Cardinality(DOMAIN temp))
        keys  == SortedKeys(DOMAIN temp)
        current_vmap == [i \in DOMAIN keys |-> IF temp[keys[i]] THEN 1 ELSE 0]
        hits  == { i \in DOMAIN order : order[i] = current_vmap }
        position == IF hits = {} THEN 0
                    ELSE (CHOOSE i \in hits : \A j \in hits : i <= j) - 1
    IN  [first |-> temp, second |-> position]

\* the cell appended for one line of values (the last token is the output)
load_values_cell(vals, vs, uvars) ==
    [first  |-> [first |-> process(vs[1], vals, uvars), second |-> process(vs[2], vals, uvars)],
     second |-> (vals[Len(vals)] # 0)]

\* the value tokens of truth-table row r over n variables, leftmost variable most significant
RowBits(r, n) == [i \in 1..n |-> (r \div Pow2(n - i)) % 2]

----------------------------------------------------------------------------
(* kmap::check_group, kmap::get_all_groups *)

\* variant: a coordinate without a cell rejects the group
check_group_present(group, val) ==
    \A i \in group.start.x..(group.start.x + group.size.x - 1) :
        \A j \in group.start.y..(group.start.y + group.size.y - 1) :
            LET fv == value_for(i, j)
            IN  fv # 0 /\ internal_map[fv].second = val

check_group(group, val) ==
    \A i \in group.start.x..(group.start.x + group.size.x - 1) :
        \A j \in group.start.y..(group.start.y + group.size.y - 1) :
            LET fv == value_for(i, j)
            IN  fv # 0 => internal_map[fv].second = val

\* variant: the loop runs while "x <= size - mask + 1"
Origins_inclusive(axis_size, mask_size) == axis_size - mask_size + 2

\* number of origins the loop "x < size - mask + 1" visits on one axis
Origins(axis_size, mask_size) == axis_size - mask_size + 1

get_all_groups(val) ==
    Flatten([m \in DOMAIN patterns |->
        LET mask == patterns[m]
        IN  Flatten([i \in 1..Origins(size_x, mask.x) |->
                SelectSeq([j \in 1..Origins(size_y, mask.y) |->
                              kgroup(ivec2(i - 1, j - 1), mask)],
                          LAMBDA g : check_group(g, val))])])

----------------------------------------------------------------------------
(* kmap::get_filtered_groups *)

\* variant: the test "&g != &b" left out
first_pass_self(gs) ==
    KeepFrom(gs,
             { a \in DOMAIN gs :
                 ~ \E b \in DOMAIN gs : is_in(gs[a], gs[b]) },
             1)

\* first pass: drop every group that is inside another element of the list
first_pass(gs) ==
    KeepFrom(gs,
             { a \in DOMAIN gs :
                 ~ \E b \in DOMAIN gs : is_in(gs[a], gs[b]) /\ a # b },
             1)

RECURSIVE OtherPoints(_, _, _)
\* the vector "points" built for element a: the points of every other element,
\* each inserted at the front
OtherPoints(ts, a, b) ==
    IF b > Len(ts) THEN <<>>
    ELSE OtherPoints(ts, a, b + 1) \o (IF b = a THEN <<>> ELSE to_points(ts[b]))

RECURSIVE second_pass_greedy_from(_, _)
\* variant: each element is judged against the list as reduced so far
second_pass_greedy_from(cur, a) ==
    IF a > Len(cur) THEN cur
    ELSE LET points == OtherPoints(cur, a, 1)
             p      == to_points(cur[a])
             own    == \E k \in DOMAIN p :
                          \A n \in DOMAIN points :
                              ~ (p[k].x = points[n].x /\ p[k].y = points[n].y)
         IN  IF own THEN second_pass_greedy_from(cur, a + 1)
             ELSE second_pass_greedy_from(KeepFrom(cur, DOMAIN cur \ {a}, 1), a)

second_pass_greedy(ts) == second_pass_greedy_from(ts, 1)

\* variant: "result.clear()" left out, the kept elements follow the first-pass list
second_pass_noclear(ts) ==
    ts \o KeepFrom(ts,
                   { a \in DOMAIN ts :
                       LET points == OtherPoints(ts, a, 1)
                           p      == to_points(ts[a])
                       IN  \E k \in DOMAIN p :
                              \A n \in DOMAIN points :
                                  ~ (p[k].x = points[n].x /\ p[k].y = points[n].y) },
                   1)

\* second pass: keep an element when one of its points is in no other element
second_pass(ts) ==
    KeepFrom(ts,
             { a \in DOMAIN ts :
                 LET points == OtherPoints(ts, a, 1)
                     p      == to_points(ts[a])
                 IN  \E k \in DOMAIN p :
                        \A n \in DOMAIN points :
                            ~ (p[k].x = points[n].x /\ p[k].y = points[n].y) },
             1)

----------------------------------------------------------------------------
(* kmap::coords_from_kgroup, kmap::get_formula *)

\* the cells found under a group, as indices into internal_map
coords_from_kgroup(group) ==
    LET all == Flatten([i \in 1..group.size.x |->
                  [j \in 1..group.size.y |->
                      var_coord_for(group.start.x + (i - 1), group.start.y + (j - 1))]])
    IN  SelectSeq(all, LAMBDA fv : fv # 0)

\* variant: only the horizontal map is read
nvalue_of_horizontal(c, var) ==
    LET coord == internal_map[c].first
    IN  IF var \in DOMAIN coord.first.first THEN << coord.first.first[var] >>
        ELSE << >>

\* "nvalue" for one cell: the variable's value in the cell's axis maps, the
\* vertical map read last; <<>> is nullptr
nvalue_of(c, var) ==
    LET coord == internal_map[c].first
    IN  IF var \in DOMAIN coord.second.first THEN << coord.second.first[var] >>
        ELSE IF var \in DOMAIN coord.first.first THEN << coord.first.first[var] >>
        ELSE << >>

RECURSIVE ScanCoords(_, _, _, _)
\* the loop over the cells of a group for one variable, from position k on,
\* "value" being <<>> (nullptr) or << *value >>; the result is
\* [is_different, value] at the end of the loop
ScanCoords(coords, var, k, value) ==
    IF k > Len(coords) THEN [is_different |-> FALSE, value |-> value]
    ELSE LET nvalue == nvalue_of(coords[k], var)
         IN  IF nvalue = << >> THEN [is_different |-> TRUE, value |-> value]
             ELSE IF value = << >> THEN ScanCoords(coords, var, k + 1, nvalue)
             ELSE IF value[1] # nvalue[1] THEN [is_different |-> TRUE, value |-> value]
             ELSE ScanCoords(coords, var, k + 1, value)

\* variant: the polarity is the fixed value itself, not its comparison with cvalue
term_of_plain(g) ==
    LET coords == coords_from_kgroup(g)
        cvalue == IF coords = << >> THEN 0
                  ELSE LET c == internal_map[coords[1]].first
                       IN  value_for(c.first.second, c.second.second)
    IN  [var \in ToSet(unordered_variables) |->
            LET r == ScanCoords(coords, var, 1, << >>)
            IN  IF r.is_different \/ cvalue = 0 \/ r.value = << >> THEN "k_vnull"
                ELSE IF r.value[1] THEN "k_vtrue"
                ELSE "k_vfalse"]

\* the term of one group
term_of(g) ==
    LET coords == coords_from_kgroup(g)
        \* cvalue: the value of the first cell under the group, 0 when there is none
        cvalue == IF coords = << >> THEN 0
                  ELSE LET c == internal_map[coords[1]].first
                       IN  value_for(c.first.second, c.second.second)
    IN  [var \in ToSet(unordered_variables) |->
            LET r == ScanCoords(coords, var, 1, << >>)
            IN  IF r.is_different \/ cvalue = 0 \/ r.value = << >> THEN "k_vnull"
                ELSE IF r.value[1] = internal_map[cvalue].second THEN "k_vtrue"
                ELSE "k_vfalse"]

get_formula(fgroups) == [n \in DOMAIN fgroups |-> term_of(fgroups[n])]

----------------------------------------------------------------------------
(* kmap::get_formula_string *)

RECURSIVE term_string(_, _, _, _)
\* the inner stream "ssn" after the map entries keys[k..] were written
term_string(m, keys, k, val) ==
    IF k = 0 THEN ""
    ELSE LET ssn == term_string(m, keys, k - 1, val)
             vv  == m[keys[k]]
         IN  ssn
             \o (IF ssn # "" /\ vv # "k_vnull"
                 THEN " " \o (IF ~ val THEN "+" ELSE "x") \o " " ELSE "")
             \o (IF vv = "k_vfalse" THEN "!" ELSE "")
             \o (IF vv # "k_vnull" THEN keys[k] ELSE "")

RECURSIVE get_formula_string(_, _, _)
\* the stream "ss" after the first n terms were written
get_formula_string(terms, n, val) ==
    IF n = 0 THEN ""
    ELSE LET ss == get_formula_string(terms, n - 1, val)
             m  == terms[n]
             keys == SortedKeys(DOMAIN m)
         IN  ss
             \o (IF ss # "" THEN " " \o (IF val THEN "+" ELSE "x") \o " " ELSE "")
             \o "(" \o term_string(m, keys, Len(keys), val) \o ")"

----------------------------------------------------------------------------
(* The state machine *)

Init ==
    /\ pc = "ctor"
    /\ exists = FALSE
    /\ unordered_variables = << >>
    /\ variables = << << >>, << >> >>
    /\ internal_map = << >>
    /\ v = FALSE
    /\ groups = << >>
    /\ tresult = << >>
    /\ filtered = << >>
    /\ formula = << >>
    /\ formula_string = ""

\* kmap::kmap on a path that does not exist: returns at once
CtorMissing ==
    /\ pc = "ctor"
    /\ pc' = "loaded"
    /\ exists' = FALSE
    /\ UNCHANGED <<unordered_variables, variables, internal_map,
                   v, groups, tresult, filtered, formula, formula_string>>

\* kmap::kmap reading the first line: load_variables
LoadVariables(tvariables) ==
    /\ pc = "ctor"
    /\ pc' = "reading"
    /\ exists' = TRUE
    /\ variables' = << SortedKeys(FirstAxisSet(tvariables)),
                       SortedKeys(SecondAxisSet(tvariables)) >>
    /\ unordered_variables' = tvariables
    /\ UNCHANGED <<internal_map, v, groups, tresult, filtered, formula, formula_string>>

NumRows == Pow2(Len(unordered_variables))

Ones(imap)  == Cardinality({ i \in DOMAIN imap : imap[i].second })
Zeros(imap) == Cardinality({ i \in DOMAIN imap : ~ imap[i].second })

\* kmap::kmap reading a further line: load_values on the next truth-table row,
\* whose output token is out
LoadValues(out) ==
    /\ pc = "reading"
    /\ Len(internal_map) < NumRows
    /\ LET n    == Len(unordered_variables)
           vals == RowBits(Len(internal_map), n) \o << out >>
           imap == Append(internal_map, load_values_cell(vals, variables, unordered_variables))
       IN  /\ Ones(imap) <= MaxMinority \/ Zeros(imap) <= MaxMinority
           /\ internal_map' = imap
    /\ UNCHANGED <<pc, exists, unordered_variables, variables,
                   v, groups, tresult, filtered, formula, formula_string>>

\* kmap::kmap: std::getline fails, the constructor returns
EndOfFile ==
    /\ pc = "reading"
    /\ NumRows - Len(internal_map) <= MaxMissing
    /\ pc' = "loaded"
    /\ UNCHANGED <<exists, unordered_variables, variables, internal_map,
                   v, groups, tresult, filtered, formula, formula_string>>

\* a call of kmap::get_formula(val)
GetFormula(val) ==
    /\ pc = "loaded"
    /\ pc' = "formula"
    /\ v' = val
    /\ groups' = get_all_groups(val)
    /\ tresult' = first_pass(groups')
    /\ filtered' = second_pass(tresult')
    /\ formula' = get_formula(filtered')
    /\ UNCHANGED <<exists, unordered_variables, variables, internal_map, formula_string>>

\* a call of kmap::get_formula_string(val)
GetFormulaString(val) ==
    /\ pc = "loaded"
    /\ pc' = "string"
    /\ v' = val
    /\ groups' = get_all_groups(val)
    /\ tresult' = first_pass(groups')
    /\ filtered' = second_pass(tresult')
    /\ formula' = get_formula(filtered')
    /\ formula_string' = get_formula_string(formula', Len(formula'), val)
    /\ UNCHANGED <<exists, unordered_variables, variables, internal_map>>

Next ==
    \/ CtorMissing
    \/ \E tvariables \in VarLines : LoadVariables(tvariables)
    \/ \E out \in {0, 1} : LoadValues(out)
    \/ EndOfFile
    \/ \E val \in BOOLEAN : GetFormula(val)
    \/ \E val \in BOOLEAN : GetFormulaString(val)

Spec == Init /\ [][Next]_vars

----------------------------------------------------------------------------
(* Vocabulary of the properties, stated over sets and truth-table rows *)

\* a get_formula / get_formula_string call has returned
Called == pc \in {"formula", "string"}

\* the file existed and held every row of the truth table
Complete == exists /\ Len(internal_map) = NumRows

\* the coordinates a rectangle covers
Rect(g) ==
    { ivec2(x, y) : x \in g.start.x..(g.start.x + g.size.x - 1),
                    y \in g.start.y..(g.start.y + g.size.y - 1) }

\* whether a rectangle covers the coordinate (x, y)
InRect(x, y, g) ==
    /\ g.start.x <= x /\ x < g.start.x + g.size.x
    /\ g.start.y <= y /\ y < g.start.y + g.size.y

\* the coordinate stored with cell i
CoordOf(i) ==
    ivec2(internal_map[i].first.first.second, internal_map[i].first.second.second)

\* the coordinates of the cells whose output is val
CellsWith(val) == { CoordOf(i) : i \in { j \in DOMAIN internal_map : internal_map[j].second = val } }

\* the coordinates covered by a list of groups
Covered(gs) == UNION { Rect(gs[n]) : n \in DOMAIN gs }

\* the position of a variable on the first line of the file
ColumnOf(var) == CHOOSE i \in DOMAIN unordered_variables : unordered_variables[i] = var

\* the value the i-th line of values gives to a variable (lines are truth-table rows in order)
RowValue(i, var) == RowBits(i - 1, Len(unordered_variables))[ColumnOf(var)] = 1

Reverse(s) == [i \in DOMAIN s |-> s[Len(s) + 1 - i]]

----------------------------------------------------------------------------
(* Properties *)

\* C1: for a complete truth table and either target value v, the groups
\* returned by get_filtered_groups(v) cover every cell whose output is v.
C1_Coverage ==
    (Called /\ Complete) =>
        (Covered(filtered) \cap CellsWith(v)) = CellsWith(v)

\* C2: a kmap built from a path that does not exist has size() = 0,
\* get_formula(v) returns no term and get_formula_string(v) returns "".
C2_EmptyMap ==
    (Called /\ ~ exists) =>
        /\ size = 0
        /\ formula = << >>
        /\ (pc = "string" => formula_string = "")

\* C3: the output of get_filtered_groups(v) holds no two distinct groups
\* one of whose rectangles lies fully inside the other's.
C3_ContainmentFree ==
    Called =>
        \A a \in DOMAIN filtered : \A b \in DOMAIN filtered :
            a # b => ~ (Rect(filtered[a]) \subseteq Rect(filtered[b]))

C3_Witness ==
    /\ Called
    /\ Len(filtered) >= 2
    /\ \E a \in DOMAIN groups : \E b \in DOMAIN filtered :
          /\ groups[a] # filtered[b]
          /\ Rect(groups[a]) \subseteq Rect(filtered[b])
          /\ groups[a].start.x + groups[a].size.x = filtered[b].start.x + filtered[b].size.x

\* the nine shapes of a group, as (width, height)
NineShapes ==
    { ivec2(1, 1), ivec2(2, 1), ivec2(1, 2), ivec2(4, 1), ivec2(1, 4),
      ivec2(2, 2), ivec2(4, 2), ivec2(2, 4), ivec2(4, 4) }

InsideMap(g) ==
    /\ g.start.x >= 0
    /\ g.start.y >= 0
    /\ g.start.x + g.size.x <= size_x
    /\ g.start.y + g.size.y <= size_y

\* C4: every group returned by get_all_groups(v), and so by
\* get_filtered_groups(v), has one of the nine shapes and lies inside the map.
C4_ShapeClosure ==
    Called =>
        \A g \in ToSet(groups) \cup ToSet(filtered) :
            g.size \in NineShapes /\ InsideMap(g)

C4_Witness ==
    /\ Called
    /\ \E g \in ToSet(filtered) :
          /\ g.start.x > 0 /\ g.start.y > 0
          /\ g.start.x + g.size.x = size_x
          /\ g.start.y + g.size.y = size_y
          /\ g.size.x > 1

\* the rectangles get_all_groups may place: a shape at an origin inside the map
Candidates ==
    { g \in { kgroup(ivec2(x, y), sz) :
                x \in 0..(size_x - 1), y \in 0..(size_y - 1), sz \in NineShapes } :
        InsideMap(g) }

Uniform(g, val) ==
    \A i \in DOMAIN internal_map :
        LET c == internal_map[i]
        IN  c.second # val => ~ InRect(c.first.first.second, c.first.second.second, g)

\* C5: every cell under a group returned by get_all_groups(v) has output v,
\* and a covered coordinate that has no cell never rejects a group: every
\* placeable rectangle whose existing cells all have output v is returned.
C5_Uniformity ==
    Called =>
        LET returned == ToSet(groups)
        IN  /\ \A g \in returned : Uniform(g, v)
            /\ \A g \in Candidates : Uniform(g, v) => g \in returned

C5_Witness ==
    /\ Called
    /\ exists
    /\ \E g \in ToSet(groups) :
          /\ g.size.x > 1
          /\ \E p \in Rect(g) : \A i \in DOMAIN internal_map : CoordOf(i) # p
          /\ \E i \in DOMAIN internal_map : CoordOf(i) \in Rect(g)

\* every cell of the map has output val
Constant(val) == \A i \in DOMAIN internal_map : internal_map[i].second = val

\* C6: for a complete truth table whose output is v in every row,
\* get_filtered_groups(v) returns exactly the group that covers the whole map,
\* the one term of get_formula(v) marks every variable k_vnull and
\* get_formula_string(v) is "()".
C6_ConstantTable ==
    (Called /\ Complete /\ Constant(v)) =>
        /\ filtered = << kgroup(ivec2(0, 0), ivec2(size_x, size_y)) >>
        /\ formula = << [var \in ToSet(unordered_variables) |-> "k_vnull"] >>
        /\ (pc = "string" => formula_string = "()")

C6_Witness ==
    /\ pc = "string"
    /\ Complete
    /\ Constant(v)
    /\ Len(unordered_variables) = 4
    /\ Len(groups) > 1

\* the lines of values whose output is true
TrueRows == { i \in DOMAIN internal_map : internal_map[i].second }

\* C7: for a complete truth table with exactly one row of output true,
\* get_formula(true) returns one term in which every variable appears,
\* k_vtrue when the row gives it 1 and k_vfalse when the row gives it 0; for
\* the AND table of two variables the string is "(A x B)".
C7_SingleMinterm ==
    (Called /\ Complete /\ v /\ Cardinality(TrueRows) = 1) =>
        LET i == CHOOSE j \in TrueRows : TRUE
        IN  /\ Len(formula) = 1
            /\ DOMAIN formula[1] = ToSet(unordered_variables)
            /\ \A var \in ToSet(unordered_variables) :
                  formula[1][var] = IF RowValue(i, var) THEN "k_vtrue" ELSE "k_vfalse"
            /\ (pc = "string" /\ ToSet(unordered_variables) = {"A", "B"} /\ i = 4)
                  => formula_string = "(A x B)"

C7_Witness ==
    /\ pc = "string"
    /\ Complete
    /\ v
    /\ unordered_variables = <<"B", "A">>
    /\ TrueRows = {4}
    /\ formula_string = "(A x B)"

\* the assignments to the declared variables
Assignments == [ToSet(unordered_variables) -> BOOLEAN]

\* the assignment the i-th line of values states
AssignmentOf(i) == [var \in ToSet(unordered_variables) |-> RowValue(i, var)]

\* the assignments that satisfy the product of a term's literals
Satisfying(m) ==
    { a \in Assignments :
        \A var \in DOMAIN m : /\ m[var] = "k_vtrue"  => a[var]
                              /\ m[var] = "k_vfalse" => ~ a[var] }

\* the assignments that falsify the sum of a term's literals
Falsifying(m) ==
    { a \in Assignments :
        \A var \in DOMAIN m : /\ m[var] = "k_vtrue"  => ~ a[var]
                              /\ m[var] = "k_vfalse" => a[var] }

\* the lines of values whose cell lies under a group
RowsUnder(g) ==
    { i \in DOMAIN internal_map :
        InRect(internal_map[i].first.first.second, internal_map[i].first.second.second, g) }

\* C8: for a complete truth table, the assignments that satisfy a term's
\* product (v true) or falsify a term's sum (v false) are exactly the
\* assignments of the cells under the group the term comes from, and each of
\* them has output v.
C8_TermImpliesOutput ==
    (Called /\ Complete) =>
        /\ Len(formula) = Len(filtered)
        /\ \A n \in DOMAIN formula :
              LET under == RowsUnder(filtered[n])
              IN  /\ (IF v THEN Satisfying(formula[n]) ELSE Falsifying(formula[n]))
                        = { AssignmentOf(i) : i \in under }
                  /\ \A i \in under : internal_map[i].second = v

C8_Witness ==
    /\ Called
    /\ Complete
    /\ ~ v
    /\ Len(unordered_variables) = 4
    /\ \E n \in DOMAIN formula :
          /\ filtered[n].size = ivec2(2, 2)
          /\ filtered[n].start = ivec2(1, 1)
          /\ \E var \in DOMAIN formula[n] : formula[n][var] = "k_vnull"
          /\ \E var \in DOMAIN formula[n] : formula[n][var] = "k_vfalse"

\* element a of a list of groups has a point that no other element covers
HasOwnPoint(ts, a) ==
    \E p \in Rect(ts[a]) :
        \A b \in DOMAIN ts : b # a => ~ InRect(p.x, p.y, ts[b])

\* C9: a survivor of the first pass is in the output of the second pass
\* exactly when one of its points is covered by no other survivor; the output,
\* as a set, is the same when the groups are enumerated in the opposite
\* order, and no group of the output is covered by the other groups of the output.
C9_SecondPass ==
    Called =>
        /\ \A a \in DOMAIN tresult :
              (tresult[a] \in ToSet(filtered)) <=> HasOwnPoint(tresult, a)
        /\ ToSet(filtered) \subseteq ToSet(tresult)
        /\ ToSet(second_pass(first_pass(Reverse(groups)))) = ToSet(filtered)
        /\ \A a \in DOMAIN filtered : HasOwnPoint(filtered, a)

C9_Witness ==
    /\ Called
    /\ Len(filtered) >= 2
    /\ Len(tresult) >= Len(filtered) + 2

\* the number of variables two lines of values disagree on
Distance(i, j) ==
    Cardinality({ var \in ToSet(unordered_variables) : RowValue(i, var) # RowValue(j, var) })

\* C10: a complete truth table over one to four distinct variables puts
\* exactly one cell on every coordinate of the map, and two cells that are
\* neighbours along one axis differ in the value of exactly one variable.
C10_GrayLayout ==
    (Complete /\ pc # "reading") =>
        /\ Len(internal_map) = size
        /\ \A x \in 0..(size_x - 1) : \A y \in 0..(size_y - 1) :
              Cardinality({ i \in DOMAIN internal_map : CoordOf(i) = ivec2(x, y) }) = 1
        /\ \A i \in DOMAIN internal_map : \A j \in DOMAIN internal_map :
              LET p == CoordOf(i)
                  q == CoordOf(j)
              IN  (\/ (p.y = q.y /\ (p.x = q.x + 1 \/ q.x = p.x + 1))
                   \/ (p.x = q.x /\ (p.y = q.y + 1 \/ q.y = p.y + 1)))
                  => Distance(i, j) = 1

C10_Witness ==
    /\ pc = "loaded"
    /\ Complete
    /\ unordered_variables = <<"D", "B", "A", "C">>
    /\ \E i \in DOMAIN internal_map : CoordOf(i) = ivec2(3, 3) /\ i = 7

====
